---- MODULE Spec2Model ----
(***************************************************************************)
(* Model of src/server.js: an Express application that keeps a list of     *)
(* products in memory and serves it over HTTP.  One request is handled at  *)
(* a time, from the first middleware to the response.                      *)
(*                                                                         *)
(* Strings are sequences of one-character strings, so that parseInt,       *)
(* comparison and route matching are computed and not assumed.             *)
(***************************************************************************)
EXTENDS Integers, Sequences, FiniteSets

VARIABLES products, res

vars == <<products, res>>

(***************************************************************************)
(* Bounds of the model.                                                    *)
(***************************************************************************)
\* The largest number of products the store holds in the model.
MaxProducts == 2
\* The largest id a create may assign in the model.
MaxId == 3

(***************************************************************************)
(* JavaScript values.  Every value is a record of the same shape, so that  *)
(* values of different types can be compared.                              *)
(***************************************************************************)
JUndefined == [t |-> "undefined", n |-> 0, s |-> <<>>, b |-> FALSE]
JStr(chars) == [t |-> "string", n |-> 0, s |-> chars, b |-> FALSE]
JNum(k) == [t |-> "number", n |-> k, s |-> <<>>, b |-> FALSE]
JBool(v) == [t |-> "boolean", n |-> 0, s |-> <<>>, b |-> v]

\* typeof v
TypeOf(v) == v.t

\* The truthiness of a value, as `!v` and `if (v)` read it.
Truthy(v) ==
  CASE v.t = "string" -> v.s /= <<>>
    [] v.t = "number" -> v.n /= 0
    [] v.t = "boolean" -> v.b
    [] OTHER -> FALSE

(***************************************************************************)
(* parseInt(string), radix 10: leading blanks are skipped, a sign is read, *)
(* then the longest prefix of decimal digits; NaN when there is no digit.  *)
(***************************************************************************)
DigitChars == <<"0", "1", "2", "3", "4", "5", "6", "7", "8", "9">>

IsDigit(c) == \E i \in 1..10 : DigitChars[i] = c

DigitVal(c) == (CHOOSE i \in 1..10 : DigitChars[i] = c) - 1

RECURSIVE SkipBlanks(_)
SkipBlanks(s) == IF s /= <<>> /\ Head(s) = " " THEN SkipBlanks(Tail(s)) ELSE s

RECURSIVE ParseDigits(_, _)
ParseDigits(s, acc) ==
  IF s /= <<>> /\ IsDigit(Head(s))
    THEN ParseDigits(Tail(s), acc * 10 + DigitVal(Head(s)))
    ELSE acc

NaN == [nan |-> TRUE, n |-> 0]

ParseIntChars(s) ==
  LET t == SkipBlanks(s)
      signed == t /= <<>> /\ Head(t) \in {"-", "+"}
      neg == t /= <<>> /\ Head(t) = "-"
      u == IF signed THEN Tail(t) ELSE t
  IN  IF u = <<>> \/ ~IsDigit(Head(u))
        THEN NaN
        ELSE [nan |-> FALSE, n |-> (IF neg THEN -1 ELSE 1) * ParseDigits(u, 0)]

\* parseInt(v) of a value: a number is first written in decimal.
RECURSIVE NatChars(_)
NatChars(k) ==
  IF k < 10 THEN <<DigitChars[k + 1]>>
  ELSE NatChars(k \div 10) \o <<DigitChars[(k % 10) + 1]>>

NumChars(k) == IF k < 0 THEN <<"-">> \o NatChars(-k) ELSE NatChars(k)

ParseInt(v) ==
  CASE v.t = "string" -> ParseIntChars(v.s)
    [] v.t = "number" -> ParseIntChars(NumChars(v.n))
    [] OTHER -> NaN

(***************************************************************************)
(* Products and request bodies.                                            *)
(***************************************************************************)
Fields == {"name", "description", "price", "category", "inStock"}

Product(id, b) ==
  [id |-> id, name |-> b.name, description |-> b.description,
   price |-> b.price, category |-> b.category, inStock |-> b.inStock]

\* A body with no field: what bodyParser.json leaves when there is none.
EmptyBody ==
  [id |-> JUndefined, name |-> JUndefined, description |-> JUndefined,
   price |-> JUndefined, category |-> JUndefined, inStock |-> JUndefined]

BodyA ==
  [id |-> JUndefined, name |-> JStr(<<"A", "b">>), description |-> JStr(<<"d">>),
   price |-> JNum(2), category |-> JStr(<<"T">>), inStock |-> JBool(TRUE)]

BodyB ==
  [id |-> JUndefined, name |-> JStr(<<"a">>), description |-> JStr(<<"e">>),
   price |-> JNum(-1), category |-> JStr(<<"t">>), inStock |-> JBool(FALSE)]

\* The body b without field f, and the body holding field f of b alone.
Without(b, f) == [b EXCEPT ![f] = JUndefined]
Only(b, f) == [EmptyBody EXCEPT ![f] = b[f]]

\* The bodies sent to create a product: none, two complete ones, the first
\* with one field left out, and the first with a field that is present but
\* falsy or of the wrong type.
CreateBodies ==
  {EmptyBody, BodyA, BodyB}
    \cup {Without(BodyA, f) : f \in Fields}
    \cup {[BodyA EXCEPT !.price = JNum(0)],
          [BodyA EXCEPT !.name = JStr(<<>>)],
          [BodyA EXCEPT !.inStock = JStr(<<"y">>)]}

\* The bodies sent to update a product: none, all five fields (once with a
\* number as category), the price alone, and the name together with an id.
UpdateBodies ==
  {EmptyBody, BodyA, BodyB,
   [BodyA EXCEPT !.category = JNum(5)],
   Only(BodyB, "price"),
   [Only(BodyA, "name") EXCEPT !.id = JNum(MaxId)]}

(***************************************************************************)
(* String helpers: toLowerCase, trim, includes.                            *)
(***************************************************************************)
UpperChars ==
  <<"A", "B", "C", "D", "E", "F", "G", "H", "I", "J", "K", "L", "M",
    "N", "O", "P", "Q", "R", "S", "T", "U", "V", "W", "X", "Y", "Z">>

LowerChars ==
  <<"a", "b", "c", "d", "e", "f", "g", "h", "i", "j", "k", "l", "m",
    "n", "o", "p", "q", "r", "s", "t", "u", "v", "w", "x", "y", "z">>

LowerChar(c) ==
  IF \E i \in 1..26 : UpperChars[i] = c
    THEN LowerChars[CHOOSE i \in 1..26 : UpperChars[i] = c]
    ELSE c

ToLowerCase(s) == [i \in 1..Len(s) |-> LowerChar(s[i])]

RECURSIVE DropTrailingBlanks(_)
DropTrailingBlanks(s) ==
  IF s /= <<>> /\ s[Len(s)] = " "
    THEN DropTrailingBlanks(SubSeq(s, 1, Len(s) - 1))
    ELSE s

Trim(s) == DropTrailingBlanks(SkipBlanks(s))

Includes(s, part) ==
  \E i \in 1..(Len(s) - Len(part) + 1) : SubSeq(s, i, i + Len(part) - 1) = part

(***************************************************************************)
(* Array helpers, with JavaScript's 0-based positions.                     *)
(***************************************************************************)
\* findIndex: the 0-based position of the first product with that id, or -1.
\* The id is the result of parseInt: NaN is equal to no id.
FindIndex(ps, id) ==
  IF ~id.nan /\ \E i \in 1..Len(ps) : ps[i].id = id.n
    THEN (CHOOSE i \in 1..Len(ps) :
            /\ ps[i].id = id.n
            /\ \A j \in 1..(i - 1) : ps[j].id /= id.n) - 1
    ELSE -1

\* slice(start, end) for start >= 0.
Slice(ps, start, end) ==
  LET last == IF end < Len(ps) THEN end ELSE Len(ps)
  IN  IF start >= last THEN <<>> ELSE SubSeq(ps, start + 1, last)

\* splice(index): everything from that position on is removed.
SpliceRest(ps, index) == SubSeq(ps, 1, index)

\* splice(index, 1): the array without the element at that 0-based position.
Splice(ps, index) ==
  SubSeq(ps, 1, index) \o SubSeq(ps, index + 2, Len(ps))

\* filter(pred) in array order; keep is the set of 1-based positions kept.
RECURSIVE FilterSeq(_, _, _)
FilterSeq(ps, keep, i) ==
  IF i > Len(ps) THEN <<>>
  ELSE (IF i \in keep THEN <<ps[i]>> ELSE <<>>) \o FilterSeq(ps, keep, i + 1)

\* Math.max(...products.map(p => p.id)) of a non-empty array.
MaxOfIds(ps) ==
  CHOOSE m \in {ps[i].id : i \in 1..Len(ps)} :
    \A i \in 1..Len(ps) : ps[i].id <= m

\* Math.floor(a / b)
FloorDiv(a, b) == a \div b

\* Math.ceil(a / b) for a >= 0 and b >= 1.
CeilDiv(a, b) == (a + b - 1) \div b

(***************************************************************************)
(* Errors and responses.                                                   *)
(***************************************************************************)
\* The classes of ./error: both extend AppError and carry a status code.
NotFoundError(msg) ==
  [class |-> "NotFoundError", appError |-> TRUE, statusCode |-> 404, message |-> msg]

ValidationError(msg) ==
  [class |-> "ValidationError", appError |-> TRUE, statusCode |-> 400, message |-> msg]

\* The error bodyParser.json passes on for a body that is not JSON.
BodySyntaxError ==
  [class |-> "SyntaxError", appError |-> FALSE, statusCode |-> 400,
   message |-> "Unexpected token"]

\* A TypeError raised by calling a string method on a value that has none.
TypeError ==
  [class |-> "TypeError", appError |-> FALSE, statusCode |-> 0,
   message |-> "toLowerCase is not a function"]

\* A response: who sent it (by), which route handler ran (route), whether
\* the products array was read, and the status and body sent.
Response(by, route, status, shape) ==
  [by |-> by, route |-> route, read |-> route \notin {"none", "root"},
   status |-> status, shape |-> shape, message |-> "", data |-> <<>>,
   page |-> 0, limit |-> 0, totalItems |-> 0, totalPages |-> 0, stats |-> {}]

NoResponse == Response("nobody", "none", 0, "none")

\* An error handler that trusts the error: res.status(err.statusCode || 500)
\* with the error's own message.
ErrorHandlerOwnStatus(err, route) ==
  [Response("errorHandler", route,
            IF err.statusCode /= 0 THEN err.statusCode ELSE 500, "message")
     EXCEPT !.message = err.message]

\* The global error handler.
ErrorHandler(err, route) ==
  IF err.appError
    THEN [Response("errorHandler", route, err.statusCode, "message")
            EXCEPT !.message = err.message]
    ELSE [Response("errorHandler", route, 500, "message")
            EXCEPT !.message = "Something went wrong!"]

\* What a handler leaves: the products array and the response.
Outcome(ps, response) == [products |-> ps, res |-> response]

(***************************************************************************)
(* The route handlers, in the order server.js registers them.  Each takes  *)
(* the request and the products array and leaves an Outcome.               *)
(***************************************************************************)
\* app.get('/')
RootHandler(r, ps) ==
  Outcome(ps, [Response("root", "root", 200, "text")
                 EXCEPT !.message = "Welcome to the Product API!"])

\* app.get('/api/products'), first registration: the plain list.
ListHandler(r, ps) ==
  Outcome(ps, [Response("list", "list", 200, "list") EXCEPT !.data = ps])

\* app.get('/api/products/:id')
GetByIdHandler(r, ps) ==
  LET id == ParseInt(JStr(r.path[3]))
      index == FindIndex(ps, id)
  IN  IF index = -1
        THEN Outcome(ps, ErrorHandler(NotFoundError("Product not found"), "getById"))
        ELSE Outcome(ps, [Response("getById", "getById", 200, "product")
                            EXCEPT !.data = <<ps[index + 1]>>])

\* A create that numbers by the length of the array.
NewIdByLength(ps) == Len(ps) + 1

\* A create that numbers after the last product of the array.
NewIdAfterLast(ps) == IF Len(ps) > 0 THEN ps[Len(ps)].id + 1 ELSE 1

\* The id a create assigns.
NewId(ps) == IF Len(ps) > 0 THEN MaxOfIds(ps) + 1 ELSE 1

\* A check that forgets inStock.
CreateRejectsWithoutStock(body) ==
  \/ ~Truthy(body.name)
  \/ ~Truthy(body.description)
  \/ ~Truthy(body.price)
  \/ ~Truthy(body.category)

\* The check a create makes of its body.
CreateRejects(body) ==
  \/ ~Truthy(body.name)
  \/ ~Truthy(body.description)
  \/ ~Truthy(body.price)
  \/ ~Truthy(body.category)
  \/ TypeOf(body.inStock) /= "boolean"

\* A create that puts the new product first: products.unshift(newProduct).
CreateHandlerUnshift(r, ps) ==
  IF CreateRejects(r.body)
    THEN Outcome(ps, ErrorHandler(
           ValidationError("All fields are required and inStock must be boolean"),
           "create"))
    ELSE LET newProduct == Product(NewId(ps), r.body)
         IN  Outcome(<<newProduct>> \o ps,
                     [Response("create", "create", 201, "product")
                        EXCEPT !.data = <<newProduct>>])

\* app.post('/api/products')
CreateHandler(r, ps) ==
  IF CreateRejects(r.body)
    THEN Outcome(ps, ErrorHandler(
           ValidationError("All fields are required and inStock must be boolean"),
           "create"))
    ELSE LET newProduct == Product(NewId(ps), r.body)
         IN  Outcome(Append(ps, newProduct),
                     [Response("create", "create", 201, "product")
                        EXCEPT !.data = <<newProduct>>])

\* An update written as Object.assign(product, req.body): the id of the body
\* is taken too.
ApplyUpdateAssign(product, body) ==
  [id |-> IF body.id /= JUndefined THEN body.id.n ELSE product.id,
   name |-> IF body.name /= JUndefined THEN body.name ELSE product.name,
   description |-> IF body.description /= JUndefined
                     THEN body.description ELSE product.description,
   price |-> IF body.price /= JUndefined THEN body.price ELSE product.price,
   category |-> IF body.category /= JUndefined
                  THEN body.category ELSE product.category,
   inStock |-> IF body.inStock /= JUndefined
                 THEN body.inStock ELSE product.inStock]

\* The assignments an update makes: a field of the body that is not
\* undefined replaces the product's.
ApplyUpdate(product, body) ==
  [id |-> product.id,
   name |-> IF body.name /= JUndefined THEN body.name ELSE product.name,
   description |-> IF body.description /= JUndefined
                     THEN body.description ELSE product.description,
   price |-> IF body.price /= JUndefined THEN body.price ELSE product.price,
   category |-> IF body.category /= JUndefined
                  THEN body.category ELSE product.category,
   inStock |-> IF body.inStock /= JUndefined
                 THEN body.inStock ELSE product.inStock]

\* app.put('/api/products/:id')
UpdateHandler(r, ps) ==
  LET id == ParseInt(JStr(r.path[3]))
      index == FindIndex(ps, id)
  IN  IF index = -1
        THEN Outcome(ps, ErrorHandler(NotFoundError("Product not found"), "update"))
        ELSE LET product == ApplyUpdate(ps[index + 1], r.body)
             IN  Outcome([ps EXCEPT ![index + 1] = product],
                         [Response("update", "update", 200, "product")
                            EXCEPT !.data = <<product>>])

\* A delete that does not test the index: splice(-1, 1) removes the last
\* element.
DeleteHandlerUnchecked(r, ps) ==
  LET id == ParseInt(JStr(r.path[3]))
      index == FindIndex(ps, id)
      at == IF index = -1 THEN Len(ps) - 1 ELSE index
  IN  IF ps = <<>>
        THEN Outcome(ps, [Response("delete", "delete", 200, "deleted")
                            EXCEPT !.message = "Product deleted"])
        ELSE Outcome(SubSeq(ps, 1, at) \o SubSeq(ps, at + 2, Len(ps)),
                     [Response("delete", "delete", 200, "deleted")
                        EXCEPT !.message = "Product deleted",
                               !.data = <<ps[at + 1]>>])

\* app.delete('/api/products/:id')
DeleteHandler(r, ps) ==
  LET id == ParseInt(JStr(r.path[3]))
      index == FindIndex(ps, id)
  IN  IF index = -1
        THEN Outcome(ps, ErrorHandler(NotFoundError("Product not found"), "delete"))
        ELSE Outcome(Splice(ps, index),
                     [Response("delete", "delete", 200, "deleted")
                        EXCEPT !.message = "Product deleted",
                               !.data = <<ps[index + 1]>>])

\* app.get('/api/products'), second registration: the category filter.
CategoryHandler(r, ps) ==
  LET category == r.query.category
  IN  IF ~Truthy(category)
        THEN Outcome(ps, [Response("category", "category", 200, "list")
                            EXCEPT !.data = ps])
      ELSE IF \/ TypeOf(category) /= "string"
              \/ \E i \in 1..Len(ps) : TypeOf(ps[i].category) /= "string"
        THEN Outcome(ps, ErrorHandler(TypeError, "category"))
      ELSE LET keep == {i \in 1..Len(ps) :
                          ToLowerCase(ps[i].category.s) = ToLowerCase(category.s)}
           IN  Outcome(ps, [Response("category", "category", 200, "list")
                              EXCEPT !.data = FilterSeq(ps, keep, 1)])

\* app.get('/api/products'), third registration: pagination.
PaginationHandler(r, ps) ==
  LET page == IF r.query.page = JUndefined THEN JNum(1) ELSE r.query.page
      limit == IF r.query.limit = JUndefined THEN JNum(10) ELSE r.query.limit
      pageNum == ParseInt(page)
      limitNum == ParseInt(limit)
  IN  IF pageNum.nan \/ limitNum.nan \/ pageNum.n < 1 \/ limitNum.n < 1
        THEN Outcome(ps, [Response("pagination", "pagination", 400, "message")
                            EXCEPT !.message = "Invalid pagination parameters"])
        ELSE LET startIndex == (pageNum.n - 1) * limitNum.n
                 endIndex == startIndex + limitNum.n
                 totalItems == Len(ps)
             IN  Outcome(ps, [Response("pagination", "pagination", 200, "envelope")
                                EXCEPT !.page = pageNum.n,
                                       !.limit = limitNum.n,
                                       !.totalItems = totalItems,
                                       !.totalPages = CeilDiv(totalItems, limitNum.n),
                                       !.data = Slice(ps, startIndex, endIndex)])

\* app.get('/api/products/search')
SearchHandler(r, ps) ==
  LET q == r.query.q
  IN  IF ~Truthy(q) \/ (TypeOf(q) = "string" /\ Trim(q.s) = <<>>)
        THEN Outcome(ps, [Response("search", "search", 400, "message")
                            EXCEPT !.message = "Query parameter \"q\" is required"])
      ELSE IF \/ TypeOf(q) /= "string"
              \/ \E i \in 1..Len(ps) : TypeOf(ps[i].name) /= "string"
        THEN Outcome(ps, ErrorHandler(TypeError, "search"))
      ELSE LET searchTerm == ToLowerCase(q.s)
               keep == {i \in 1..Len(ps) :
                          Includes(ToLowerCase(ps[i].name.s), searchTerm)}
           IN  Outcome(ps, [Response("search", "search", 200, "list")
                              EXCEPT !.data = FilterSeq(ps, keep, 1)])

\* app.get('/api/products/stats')
StatsHandler(r, ps) ==
  IF \E i \in 1..Len(ps) : TypeOf(ps[i].category) /= "string"
    THEN Outcome(ps, ErrorHandler(TypeError, "stats"))
    ELSE LET keys == {ToLowerCase(ps[i].category.s) : i \in 1..Len(ps)}
             count(k) ==
               Cardinality({i \in 1..Len(ps) : ToLowerCase(ps[i].category.s) = k})
         IN  Outcome(ps, [Response("stats", "stats", 200, "stats")
                            EXCEPT !.stats = {<<k, count(k)>> : k \in keys}])

\* What Express answers when no route matches.
NoRouteHandler(r, ps) == Outcome(ps, Response("express", "none", 404, "text"))

(***************************************************************************)
(* Requests and routing.  A path is the sequence of its segments.          *)
(***************************************************************************)
ApiSegment == <<"a", "p", "i">>
ProductsSegment == <<"p", "r", "o", "d", "u", "c", "t", "s">>
SearchSegment == <<"s", "e", "a", "r", "c", "h">>
StatsSegment == <<"s", "t", "a", "t", "s">>

RootPath == <<>>
ProductsPath == <<ApiSegment, ProductsSegment>>
ProductPath(segment) == <<ApiSegment, ProductsSegment, segment>>

Literal(segment) == [param |-> FALSE, lit |-> segment]
Param == [param |-> TRUE, lit |-> <<>>]

Route(method, pattern, handler) ==
  [method |-> method, pattern |-> pattern, handler |-> handler]

\* The routes in the order server.js registers them.
Routes ==
  <<Route("GET", <<>>, "root"),
    Route("GET", <<Literal(ApiSegment), Literal(ProductsSegment)>>, "list"),
    Route("GET", <<Literal(ApiSegment), Literal(ProductsSegment), Param>>, "getById"),
    Route("POST", <<Literal(ApiSegment), Literal(ProductsSegment)>>, "create"),
    Route("PUT", <<Literal(ApiSegment), Literal(ProductsSegment), Param>>, "update"),
    Route("DELETE", <<Literal(ApiSegment), Literal(ProductsSegment), Param>>, "delete"),
    Route("GET", <<Literal(ApiSegment), Literal(ProductsSegment)>>, "category"),
    Route("GET", <<Literal(ApiSegment), Literal(ProductsSegment)>>, "pagination"),
    Route("GET", <<Literal(ApiSegment), Literal(ProductsSegment),
                   Literal(SearchSegment)>>, "search"),
    Route("GET", <<Literal(ApiSegment), Literal(ProductsSegment),
                   Literal(StatsSegment)>>, "stats")>>

Matches(route, r) ==
  /\ route.method = r.method
  /\ Len(route.pattern) = Len(r.path)
  /\ \A i \in 1..Len(r.path) :
       route.pattern[i].param \/ route.pattern[i].lit = r.path[i]

\* A dispatch in which the route registered last wins.
DispatchLast(r) ==
  IF \E i \in 1..Len(Routes) : Matches(Routes[i], r)
    THEN Routes[CHOOSE i \in 1..Len(Routes) :
                  /\ Matches(Routes[i], r)
                  /\ \A j \in (i + 1)..Len(Routes) : ~Matches(Routes[j], r)].handler
    ELSE "none"

\* Express runs the first registered route that matches; every handler of
\* server.js answers (or passes an error on) and none calls next() to go on
\* to a later route.
Dispatch(r) ==
  IF \E i \in 1..Len(Routes) : Matches(Routes[i], r)
    THEN Routes[CHOOSE i \in 1..Len(Routes) :
                  /\ Matches(Routes[i], r)
                  /\ \A j \in 1..(i - 1) : ~Matches(Routes[j], r)].handler
    ELSE "none"

RunRoute(handler, r, ps) ==
  CASE handler = "root" -> RootHandler(r, ps)
    [] handler = "list" -> ListHandler(r, ps)
    [] handler = "getById" -> GetByIdHandler(r, ps)
    [] handler = "create" -> CreateHandler(r, ps)
    [] handler = "update" -> UpdateHandler(r, ps)
    [] handler = "delete" -> DeleteHandler(r, ps)
    [] handler = "category" -> CategoryHandler(r, ps)
    [] handler = "pagination" -> PaginationHandler(r, ps)
    [] handler = "search" -> SearchHandler(r, ps)
    [] handler = "stats" -> StatsHandler(r, ps)
    [] OTHER -> NoRouteHandler(r, ps)

(***************************************************************************)
(* The middleware in front of the routes.                                  *)
(***************************************************************************)
\* process.env.AUTH_TOKEN
AuthToken == <<"k">>

\* `Bearer ${process.env.AUTH_TOKEN}`
expectedToken == <<"B", "e", "a", "r", "e", "r", " ">> \o AuthToken

\* The test of the auth middleware: !token || token !== expectedToken
AuthRejects(r) ==
  LET token == r.authorization
  IN  ~Truthy(token) \/ token /= JStr(expectedToken)

\* A request from bodyParser.json to the response.
Serve(r, ps) ==
  IF ~r.parsable
    THEN Outcome(ps, ErrorHandler(BodySyntaxError, "none"))
  ELSE IF AuthRejects(r)
    THEN Outcome(ps, [Response("auth", "none", 401, "message")
                        EXCEPT !.message = "Unauthorized"])
  ELSE RunRoute(Dispatch(r), r, ps)

(***************************************************************************)
(* The requests the model sends.                                           *)
(***************************************************************************)
GoodHeader == JStr(expectedToken)

\* No header, the bare token, and another token.
BadHeaders ==
  {JUndefined, JStr(AuthToken), JStr(<<"B", "e", "a", "r", "e", "r", " ", "z">>)}

NoQuery ==
  [page |-> JUndefined, limit |-> JUndefined, category |-> JUndefined,
   q |-> JUndefined]

SomeQueries ==
  {NoQuery,
   [NoQuery EXCEPT !.page = JStr(<<"2">>), !.limit = JStr(<<"1">>)],
   [NoQuery EXCEPT !.page = JStr(<<"0">>)],
   [NoQuery EXCEPT !.category = JStr(<<"t">>)],
   [NoQuery EXCEPT !.q = JStr(<<"a">>)]}

\* Path segments given as an id: every id of the model, a word, and a
\* number followed by a letter.
IdSegments ==
  {NatChars(i) : i \in 1..MaxId} \cup {<<"a">>, <<"2", "a">>}

Request(method, path, body, query) ==
  [method |-> method, path |-> path, authorization |-> GoodHeader,
   parsable |-> TRUE, body |-> body, query |-> query]

RootRequests == {Request("GET", RootPath, EmptyBody, NoQuery)}

ListRequests == {Request("GET", ProductsPath, EmptyBody, q) : q \in SomeQueries}

SegmentRequests ==
  {Request("GET", ProductPath(s), EmptyBody, NoQuery) :
     s \in IdSegments \cup {SearchSegment, StatsSegment}}
    \cup {Request("GET", ProductPath(SearchSegment), EmptyBody,
                  [NoQuery EXCEPT !.q = JStr(<<"a">>)])}

CreateRequests == {Request("POST", ProductsPath, b, NoQuery) : b \in CreateBodies}

UpdateRequests ==
  {Request("PUT", ProductPath(s), b, NoQuery) : s \in IdSegments, b \in UpdateBodies}

DeleteRequests ==
  {Request("DELETE", ProductPath(s), EmptyBody, NoQuery) : s \in IdSegments}

\* Requests no route is registered for.
OtherRequests ==
  {Request("POST", RootPath, EmptyBody, NoQuery),
   Request("DELETE", ProductsPath, EmptyBody, NoQuery)}

\* Requests of every method and path, sent again without a valid
\* Authorization header.
ProbeRequests ==
  {Request("GET", RootPath, EmptyBody, NoQuery),
   Request("GET", ProductsPath, EmptyBody, NoQuery),
   Request("GET", ProductPath(<<"1">>), EmptyBody, NoQuery),
   Request("GET", ProductPath(SearchSegment), EmptyBody,
           [NoQuery EXCEPT !.q = JStr(<<"a">>)]),
   Request("POST", ProductsPath, BodyA, NoQuery),
   Request("PUT", ProductPath(<<"1">>), BodyB, NoQuery),
   Request("DELETE", ProductPath(<<"1">>), EmptyBody, NoQuery)}

UnauthorizedRequests ==
  {[r EXCEPT !.authorization = h] : r \in ProbeRequests, h \in BadHeaders}

\* Requests whose body is not JSON, with and without a valid header.
MalformedRequests ==
  {[r EXCEPT !.authorization = h, !.parsable = FALSE] :
     r \in {Request("GET", ProductsPath, EmptyBody, NoQuery),
            Request("POST", ProductsPath, EmptyBody, NoQuery),
            Request("PUT", ProductPath(<<"1">>), EmptyBody, NoQuery)},
     h \in {GoodHeader, JUndefined}}

\* Every request of the model.
Requests ==
  RootRequests \cup ListRequests \cup SegmentRequests \cup CreateRequests
    \cup UpdateRequests \cup DeleteRequests \cup OtherRequests
    \cup UnauthorizedRequests \cup MalformedRequests

(***************************************************************************)
(* The state machine.  products is the array of ./Products; res is the     *)
(* response to the request handled last.                                   *)
(***************************************************************************)
\* The arrays the server may start with: ids are distinct and every field
\* of every product is populated.
InitialStores ==
  {<<>>, <<Product(2, BodyB), Product(1, BodyA)>>}

Init ==
  /\ products \in InitialStores
  /\ res = NoResponse

WithinBounds(ps) ==
  /\ Len(ps) <= MaxProducts
  /\ \A i \in 1..Len(ps) : ps[i].id <= MaxId

\* Each action is one request, from the first middleware to the response.
MalformedBody ==
  \E r \in MalformedRequests :
    LET o == Serve(r, products)
    IN  /\ WithinBounds(o.products)
        /\ products' = o.products
        /\ res' = o.res

Unauthorized ==
  \E r \in UnauthorizedRequests :
    LET o == Serve(r, products)
    IN  /\ WithinBounds(o.products)
        /\ products' = o.products
        /\ res' = o.res

GetRoot ==
  \E r \in RootRequests :
    LET o == Serve(r, products)
    IN  /\ WithinBounds(o.products)
        /\ products' = o.products
        /\ res' = o.res

GetProducts ==
  \E r \in ListRequests :
    LET o == Serve(r, products)
    IN  /\ WithinBounds(o.products)
        /\ products' = o.products
        /\ res' = o.res

GetProductsSegment ==
  \E r \in SegmentRequests :
    LET o == Serve(r, products)
    IN  /\ WithinBounds(o.products)
        /\ products' = o.products
        /\ res' = o.res

PostProducts ==
  \E r \in CreateRequests :
    LET o == Serve(r, products)
    IN  /\ WithinBounds(o.products)
        /\ products' = o.products
        /\ res' = o.res

PutProduct ==
  \E r \in UpdateRequests :
    LET o == Serve(r, products)
    IN  /\ WithinBounds(o.products)
        /\ products' = o.products
        /\ res' = o.res

DeleteProduct ==
  \E r \in DeleteRequests :
    LET o == Serve(r, products)
    IN  /\ WithinBounds(o.products)
        /\ products' = o.products
        /\ res' = o.res

Unrouted ==
  \E r \in OtherRequests :
    LET o == Serve(r, products)
    IN  /\ WithinBounds(o.products)
        /\ products' = o.products
        /\ res' = o.res

Next ==
  \/ MalformedBody
  \/ Unauthorized
  \/ GetRoot
  \/ GetProducts
  \/ GetProductsSegment
  \/ PostProducts
  \/ PutProduct
  \/ DeleteProduct
  \/ Unrouted

Spec == Init /\ [][Next]_vars

(***************************************************************************)
(* The handlers applied directly to a request, whatever route Express      *)
(* would have chosen for it, over the stores the mutating requests reach.  *)
(***************************************************************************)
PageValues ==
  {JUndefined, JStr(<<"0">>), JStr(<<"1">>), JStr(<<"2">>), JStr(<<"3">>),
   JStr(<<"a">>), JStr(<<"2", "a">>), JStr(<<"-", "1">>)}

LimitValues ==
  {JUndefined, JStr(<<"0">>), JStr(<<"1">>), JStr(<<"2">>), JStr(<<"a">>)}

PaginationRequests ==
  {Request("GET", ProductsPath, EmptyBody,
           [NoQuery EXCEPT !.page = pg, !.limit = lm]) :
     pg \in PageValues, lm \in LimitValues}

Paginate ==
  \E r \in PaginationRequests :
    LET o == PaginationHandler(r, products)
    IN  /\ products' = o.products
        /\ res' = o.res

CategoryValues ==
  {JUndefined, JStr(<<>>), JStr(<<"t">>), JStr(<<"T">>), JStr(<<"x">>)}

CategoryRequests ==
  {Request("GET", ProductsPath, EmptyBody, [NoQuery EXCEPT !.category = c]) :
     c \in CategoryValues}

FilterByCategory ==
  \E r \in CategoryRequests :
    LET o == CategoryHandler(r, products)
    IN  /\ products' = o.products
        /\ res' = o.res

NextHandlers ==
  \/ PostProducts
  \/ PutProduct
  \/ DeleteProduct
  \/ Paginate
  \/ FilterByCategory

SpecHandlers == Init /\ [][NextHandlers]_vars

(***************************************************************************)
(* Vocabulary of the properties.                                           *)
(***************************************************************************)
NonEmptyString(v) == v.t = "string" /\ v.s /= <<>>

\* All five fields of a product or body are populated.
Populated(x) ==
  /\ NonEmptyString(x.name)
  /\ NonEmptyString(x.description)
  /\ NonEmptyString(x.category)
  /\ x.price.t = "number"
  /\ x.inStock.t = "boolean"

IdsOf(ps) == {ps[i].id : i \in 1..Len(ps)}

\* The largest id of a non-empty store, said without Math.max.
LargestId(ps) == CHOOSE m \in IdsOf(ps) : \A k \in IdsOf(ps) : k <= m

\* The numeral of an id, and whether a path segment names an id of the store.
NamesAnId(segment, ps) ==
  LET id == ParseInt(JStr(segment))
  IN  ~id.nan /\ id.n \in IdsOf(ps)

\* The 1-based position of the product a path segment names.
PositionOf(segment, ps) ==
  CHOOSE i \in 1..Len(ps) : ps[i].id = ParseInt(JStr(segment)).n

\* ps without its element at 1-based position i.
Removed(ps, i) ==
  [k \in 1..(Len(ps) - 1) |-> IF k < i THEN ps[k] ELSE ps[k + 1]]

(***************************************************************************)
(* C1.  No two products of the store have the same id, after any sequence  *)
(* of create, update and delete requests, successful or failing.           *)
(***************************************************************************)
C1_UniqueIds ==
  \A i, j \in 1..Len(products) : i /= j => products[i].id /= products[j].id

\* A create has just numbered a product 3 in a store of two whose other id
\* is 2: the id is not the length plus one.
C1_Witness ==
  /\ res.route = "create"
  /\ res.status = 201
  /\ Len(products) = 2
  /\ products[1].id = 2
  /\ products[2].id = 3

(***************************************************************************)
(* C2.  Every authenticated POST /api/products whose body has all five     *)
(* fields populated (non-empty name, description and category, a numeric   *)
(* price, a boolean inStock) is answered 201 with a record whose id is 1 + *)
(* the largest id of the store (1 for the empty store); the store grows by *)
(* one, the record is its last element, and the others are unchanged.      *)
(* Said of every step that handles such a request.  The code does not do   *)
(* this for a price of 0.                                                  *)
(***************************************************************************)
C2_CreateAccepted ==
  [][\A r \in CreateRequests :
       (/\ Populated(r.body)
        /\ products' = Serve(r, products).products
        /\ res' = Serve(r, products).res) =>
         LET id == IF products = <<>> THEN 1 ELSE 1 + LargestId(products)
         IN  /\ res'.status = 201
             /\ res'.data = <<Product(id, r.body)>>
             /\ products' = Append(products, Product(id, r.body))]_vars

(***************************************************************************)
(* C3.  Every POST /api/products in which name, description, price or      *)
(* category is missing, or inStock is not a boolean, is answered 400 with  *)
(* the ValidationError's message, and the store is left as it was.         *)
(***************************************************************************)
C3_CreateRejected ==
  \A r \in CreateRequests :
    (\/ r.body.name = JUndefined
     \/ r.body.description = JUndefined
     \/ r.body.price = JUndefined
     \/ r.body.category = JUndefined
     \/ r.body.inStock.t /= "boolean") =>
      LET o == Serve(r, products)
      IN  /\ o.res.status = 400
          /\ o.res.by = "errorHandler"
          /\ o.res.message = "All fields are required and inStock must be boolean"
          /\ o.products = products

\* A create has just been refused over a store that holds products.
C3_Witness ==
  /\ res.route = "create"
  /\ res.status = 400
  /\ Len(products) = MaxProducts

(***************************************************************************)
(* C4.  Every request whose Authorization header is missing or differs     *)
(* from 'Bearer <token>', whatever its method, path and body, is answered  *)
(* 401 {message: 'Unauthorized'}; no route handler runs and the store is   *)
(* neither read nor changed.  Said of every step that handles such a       *)
(* request.  The code answers 500 when the body of the request is not      *)
(* JSON.                                                                   *)
(***************************************************************************)
C4_UnauthorizedIs401 ==
  [][\A r \in Requests :
       (/\ r.authorization /= JStr(expectedToken)
        /\ products' = Serve(r, products).products
        /\ res' = Serve(r, products).res) =>
         /\ res'.status = 401
         /\ res'.message = "Unauthorized"
         /\ res'.route = "none"
         /\ ~res'.read
         /\ products' = products]_vars

(***************************************************************************)
(* C5.  A PUT /api/products/:id on an existing product is answered 200     *)
(* with the product, in which each of the five fields has the body's value *)
(* if the body supplies it and its prior value otherwise; the id is the    *)
(* prior id even if the body carries one; every other product, and the     *)
(* length and order of the store, are unchanged.                           *)
(***************************************************************************)
C5_UpdateFrame ==
  \A r \in UpdateRequests :
    NamesAnId(r.path[3], products) =>
      LET o == Serve(r, products)
          at == PositionOf(r.path[3], products)
      IN  /\ o.res.status = 200
          /\ o.res.data = <<o.products[at]>>
          /\ Len(o.products) = Len(products)
          /\ \A k \in 1..Len(products) : k /= at => o.products[k] = products[k]
          /\ o.products[at].id = products[at].id
          /\ \A f \in Fields :
               o.products[at][f] =
                 IF r.body[f] = JUndefined THEN products[at][f] ELSE r.body[f]

\* An update has just changed one field of one product of two: the product
\* has the description of the one body and the name of the other.
C5_Witness ==
  /\ res.route = "update"
  /\ res.status = 200
  /\ Len(products) = 2
  /\ \E i \in 1..2 :
       /\ res.data = <<products[i]>>
       /\ products[i].name = BodyA.name
       /\ products[i].description = BodyB.description

(***************************************************************************)
(* C6.  A DELETE /api/products/:id on an existing id is answered 200 with  *)
(* the removed record; the store is the prior store without that record;   *)
(* and a GET /api/products/:id of the same id right after is answered 404. *)
(***************************************************************************)
C6_DeleteThenNotFound ==
  \A r \in DeleteRequests :
    NamesAnId(r.path[3], products) =>
      LET o == Serve(r, products)
          at == PositionOf(r.path[3], products)
          after == Serve(Request("GET", r.path, EmptyBody, NoQuery), o.products)
      IN  /\ o.res.status = 200
          /\ o.res.data = <<products[at]>>
          /\ Len(o.products) = Len(products) - 1
          /\ o.products = Removed(products, at)
          /\ after.res.status = 404
          /\ after.products = o.products

\* A delete has just removed one of two products, the one with the smaller
\* id; the other is left.
C6_Witness ==
  /\ res.route = "delete"
  /\ res.status = 200
  /\ Len(products) = 1
  /\ res.data[1].id < products[1].id

(***************************************************************************)
(* C7.  GET, PUT and DELETE on /api/products/:id with an id that no        *)
(* product of the store has are each answered 404 with the NotFoundError's *)
(* message, and the store is unchanged.                                    *)
(***************************************************************************)
C7_MissingIdNotFound ==
  \A r \in SegmentRequests \cup UpdateRequests \cup DeleteRequests :
    ~NamesAnId(r.path[3], products) =>
      LET o == Serve(r, products)
      IN  /\ o.res.status = 404
          /\ o.res.by = "errorHandler"
          /\ o.res.message = "Product not found"
          /\ o.products = products

\* A delete of an id that is not there has just been refused over a store
\* that holds products.
C7_Witness ==
  /\ res.route = "delete"
  /\ res.status = 404
  /\ Len(products) = MaxProducts

(***************************************************************************)
(* C8.  Every product of the store has all five fields populated, after    *)
(* any sequence of create, update and delete requests.  The code lets an   *)
(* update store a category that is not a string.                           *)
(***************************************************************************)
C8_AllPopulated ==
  \A i \in 1..Len(products) : Populated(products[i])

(***************************************************************************)
(* C9.  As claimed: the response to a GET /api/products comes from the     *)
(* pagination handler, the one registered last.                            *)
(***************************************************************************)
C9_LastRegisteredAnswers ==
  res.route \in {"list", "category", "pagination"} => res.route = "pagination"

(***************************************************************************)
(* C9, amended.  Of the three handlers registered for GET /api/products,   *)
(* the one registered first (the plain list) answers every authenticated   *)
(* request that reaches the routes, with 200 and the whole store whatever  *)
(* the query; the category filter and the pagination handler never produce *)
(* a response, nor run, for any request.                                   *)
(***************************************************************************)
C9_FirstRegisteredAnswers ==
  /\ res.route \notin {"category", "pagination"}
  /\ res.by \notin {"category", "pagination"}
  /\ \A r \in Requests :
       LET o == Serve(r, products)
       IN  /\ o.res.route \notin {"category", "pagination"}
           /\ (/\ r.method = "GET"
               /\ r.path = ProductsPath
               /\ r.authorization = JStr(expectedToken)
               /\ r.parsable) =>
                 /\ o.res.by = "list"
                 /\ o.res.status = 200
                 /\ o.res.shape = "list"
                 /\ o.res.data = products
                 /\ o.products = products

\* A GET /api/products has just been answered over a store of two.
C9_Witness ==
  /\ res.route = "list"
  /\ Len(res.data) = 2

(***************************************************************************)
(* C10.  Whenever the pagination handler processes a request over a store  *)
(* of n products: with page and limit parsing to integers >= 1 (page 1 and *)
(* limit 10 when absent) it answers 200 with page, limit, totalItems = n,  *)
(* totalPages = ceil(n / limit) and data = the elements at 0-based         *)
(* positions (page-1)*limit up to, not including, (page-1)*limit + limit,  *)
(* in store order, empty when that range is past the end; otherwise it     *)
(* answers 400 'Invalid pagination parameters' with no envelope.           *)
(***************************************************************************)
C10_Pagination ==
  \A r \in PaginationRequests :
    LET o == PaginationHandler(r, products)
        page == IF r.query.page = JUndefined
                  THEN [nan |-> FALSE, n |-> 1] ELSE ParseInt(r.query.page)
        limit == IF r.query.limit = JUndefined
                   THEN [nan |-> FALSE, n |-> 10] ELSE ParseInt(r.query.limit)
        n == Len(products)
        first == (page.n - 1) * limit.n
        positions == {k \in 0..(n - 1) : first <= k /\ k < first + limit.n}
    IN  /\ o.products = products
        /\ IF ~page.nan /\ ~limit.nan /\ page.n >= 1 /\ limit.n >= 1
             THEN /\ o.res.status = 200
                  /\ o.res.shape = "envelope"
                  /\ o.res.page = page.n
                  /\ o.res.limit = limit.n
                  /\ o.res.totalItems = n
                  /\ o.res.totalPages * limit.n >= n
                  /\ (o.res.totalPages - 1) * limit.n < n
                  /\ o.res.totalPages >= 0
                  /\ Len(o.res.data) = Cardinality(positions)
                  /\ \A k \in 1..Len(o.res.data) :
                       o.res.data[k] = products[first + k]
             ELSE /\ o.res.status = 400
                  /\ o.res.shape = "message"
                  /\ o.res.message = "Invalid pagination parameters"
                  /\ o.res.data = <<>>

\* The handler has just answered page 2 of a store of two, one to a page:
\* the second product, of two pages.
C10_Witness ==
  /\ res.by = "pagination"
  /\ res.status = 200
  /\ res.page = 2
  /\ res.limit = 1
  /\ res.totalItems = 2
  /\ res.totalPages = 2
  /\ Len(products) = 2
  /\ res.data = <<products[2]>>

(***************************************************************************)
(* Vocabulary of the properties about search and statistics.               *)
(***************************************************************************)
\* q is present and is not blank once trimmed.
NonBlank(q) == q.t = "string" /\ Trim(q.s) /= <<>>

\* The products of ps, in order, whose name contains the text ignoring case.
NameMatches(ps, text) ==
  FilterSeq(ps,
            {i \in 1..Len(ps) :
               /\ ps[i].name.t = "string"
               /\ Includes(ToLowerCase(ps[i].name.s), ToLowerCase(text))},
            1)

\* The lower-cased categories of ps, and how many products have each.
LowerCategories(ps) ==
  {ToLowerCase(ps[i].category.s) : i \in {k \in 1..Len(ps) : ps[k].category.t = "string"}}

CountOf(ps, key) ==
  Cardinality({i \in 1..Len(ps) :
                 ps[i].category.t = "string" /\ ToLowerCase(ps[i].category.s) = key})

RECURSIVE SumOfCounts(_)
SumOfCounts(pairs) ==
  IF pairs = {} THEN 0
  ELSE LET p == CHOOSE x \in pairs : TRUE
       IN  p[2] + SumOfCounts(pairs \ {p})

(***************************************************************************)
(* C11.  An authenticated GET /api/products/search with a q that is not    *)
(* blank once trimmed is answered 200 with exactly the products whose name *)
(* contains q ignoring case, in store order; with q absent or blank it is  *)
(* answered 400; in neither case does the by-id handler answer.  Said of   *)
(* every step that handles such a request.  In the code the by-id route,   *)
(* registered first, takes the request and answers 404.                    *)
(***************************************************************************)
C11_SearchAnswers ==
  [][\A r \in SegmentRequests :
       (/\ r.path = ProductPath(SearchSegment)
        /\ products' = Serve(r, products).products
        /\ res' = Serve(r, products).res) =>
         /\ res'.route /= "getById"
         /\ products' = products
         /\ IF NonBlank(r.query.q)
              THEN /\ res'.status = 200
                   /\ res'.data = NameMatches(products, r.query.q.s)
              ELSE res'.status = 400]_vars

(***************************************************************************)
(* C12.  An authenticated GET /api/products/stats is answered 200 with a   *)
(* mapping whose keys are exactly the lower-cased categories of the store  *)
(* and whose value for a key is the number of products of that lower-cased *)
(* category, so that the values sum to the length of the store.  Said of   *)
(* every step that handles such a request.  In the code the by-id route,   *)
(* registered first, takes the request and answers 404.                    *)
(***************************************************************************)
C12_StatsAnswers ==
  [][\A r \in SegmentRequests :
       (/\ r.path = ProductPath(StatsSegment)
        /\ products' = Serve(r, products).products
        /\ res' = Serve(r, products).res) =>
         /\ res'.status = 200
         /\ res'.shape = "stats"
         /\ res'.stats = {<<k, CountOf(products, k)>> : k \in LowerCategories(products)}
         /\ SumOfCounts(res'.stats) = Len(products)
         /\ products' = products]_vars

(***************************************************************************)
(* C13.  Every error that reaches the terminal error stage is translated   *)
(* by kind: a ValidationError or NotFoundError is answered with its own    *)
(* status (400, 404) and message; every other error, also one raised by a  *)
(* middleware before any handler runs, is answered 500 with the fixed      *)
(* message 'Something went wrong!', never with its own status or message.  *)
(***************************************************************************)
C13_ErrorsByKind ==
  /\ \A err \in {NotFoundError("Product not found"),
                 ValidationError("All fields are required and inStock must be boolean"),
                 BodySyntaxError, TypeError} :
       LET answer == ErrorHandler(err, "none")
       IN  IF err.class \in {"NotFoundError", "ValidationError"}
             THEN answer.status = err.statusCode /\ answer.message = err.message
             ELSE /\ answer.status = 500
                  /\ answer.message = "Something went wrong!"
                  /\ answer.message /= err.message
  /\ \A r \in Requests :
       LET o == Serve(r, products)
       IN  /\ ~r.parsable =>
                /\ o.res.by = "errorHandler"
                /\ o.res.route = "none"
                /\ o.res.status = 500
                /\ o.res.message = "Something went wrong!"
           /\ o.res.by = "errorHandler" =>
                /\ o.res.shape = "message"
                /\ o.res.data = <<>>
                /\ <<o.res.status, o.res.message>> \in
                     {<<400, "All fields are required and inStock must be boolean">>,
                      <<404, "Product not found">>,
                      <<500, "Something went wrong!">>}
                /\ o.res.status = 400 => o.res.route = "create"
                /\ o.res.status = 404 => o.res.route \in {"getById", "update", "delete"}
                /\ o.res.status = 500 => ~r.parsable

\* The error of bodyParser.json has just been answered by the error handler
\* over a store that holds products.
C13_Witness ==
  /\ res.by = "errorHandler"
  /\ res.route = "none"
  /\ res.status = 500
  /\ Len(products) = MaxProducts

(***************************************************************************)
(* C14.  Creation puts no sign or range constraint on the price: every     *)
(* step that handles a POST /api/products with non-empty name, description *)
(* and category, a boolean inStock and a numeric price, zero and negative  *)
(* prices included, is answered 201 and stores a product with that price.  *)
(* The code rejects the price 0.                                           *)
(***************************************************************************)
C14_AnyPriceAccepted ==
  [][\A r \in CreateRequests :
       (/\ NonEmptyString(r.body.name)
        /\ NonEmptyString(r.body.description)
        /\ NonEmptyString(r.body.category)
        /\ r.body.inStock.t = "boolean"
        /\ r.body.price.t = "number"
        /\ products' = Serve(r, products).products
        /\ res' = Serve(r, products).res) =>
         /\ res'.route = "create"
         /\ res'.status = 201
         /\ Len(products') = Len(products) + 1
         /\ products'[Len(products')].price = r.body.price]_vars

\* The 1-based position of the product with the given id.
IndexOfId(ps, id) == CHOOSE i \in 1..Len(ps) : ps[i].id = id

EntirelyDecimal(segment) ==
  /\ segment /= <<>>
  /\ \A i \in 1..Len(segment) : IsDigit(segment[i])

(***************************************************************************)
(* C16.  For GET, PUT and DELETE on /api/products/:id, every step that     *)
(* handles a request whose id segment is not entirely a decimal integer    *)
(* ('a', '2a') is answered 404 and leaves the store unchanged.  The code   *)
(* reads '2a' with parseInt as 2.                                          *)
(***************************************************************************)
C16_NonDecimalIdNotFound ==
  [][\A r \in SegmentRequests \cup UpdateRequests \cup DeleteRequests :
       (/\ ~EntirelyDecimal(r.path[3])
        /\ products' = Serve(r, products).products
        /\ res' = Serve(r, products).res) =>
         /\ res'.status = 404
         /\ products' = products]_vars

\* Two values are strings that are equal when letter case is ignored.
EqualIgnoringCase(v, w) ==
  /\ v.t = "string"
  /\ w.t = "string"
  /\ ToLowerCase(v.s) = ToLowerCase(w.s)

\* The products of ps of the given category, in the order of ps.
RECURSIVE OfCategory(_, _)
OfCategory(ps, category) ==
  IF ps = <<>> THEN <<>>
  ELSE IF EqualIgnoringCase(Head(ps).category, category)
    THEN <<Head(ps)>> \o OfCategory(Tail(ps), category)
    ELSE OfCategory(Tail(ps), category)

(***************************************************************************)
(* C17.  Every step in which the category-filter handler processes a       *)
(* request answers 200 with exactly the products whose category equals the *)
(* given one ignoring letter case, in store order (so 't' and 'T' give the *)
(* same list), and with the full list when the category is absent or       *)
(* empty; the store is unchanged.  The code throws on a stored category    *)
(* that is not a string.                                                   *)
(***************************************************************************)
C17_CategoryFilter ==
  [][\A r \in CategoryRequests :
       (/\ products' = CategoryHandler(r, products).products
        /\ res' = CategoryHandler(r, products).res
        /\ res'.route = "category") =>
         /\ res'.status = 200
         /\ products' = products
         /\ IF r.query.category = JUndefined \/ r.query.category = JStr(<<>>)
              THEN res'.data = products
              ELSE res'.data = OfCategory(products, r.query.category)]_vars

\* A delete has just removed a product.
JustDeleted == res.route = "delete" /\ res.status = 200

\* The id of the product the last delete removed.
DeletedId == res.data[1].id

\* The ids the accepted creates of the model would be given in this store.
NextCreateIds ==
  {Serve(r, products).res.data[1].id :
     r \in {c \in CreateRequests : Serve(c, products).res.status = 201}}

(***************************************************************************)
(* C18.  As claimed: after the product with the highest id is deleted, the *)
(* next successful create is given the deleted product's id, and after a   *)
(* product whose id is not the highest is deleted, its id is not given     *)
(* while a higher id remains.                                              *)
(***************************************************************************)
C18_HighestIdReused ==
  JustDeleted =>
    IF \A id \in IdsOf(products) : id < DeletedId
      THEN NextCreateIds = {DeletedId}
      ELSE DeletedId \notin NextCreateIds

(***************************************************************************)
(* C18, amended.  The id a create assigns is one more than the largest id  *)
(* present in the store, 1 for the empty store, whatever was deleted       *)
(* before.  After the product with the highest id is deleted that id is at *)
(* most the deleted one, and is the deleted one exactly when the deleted   *)
(* id was one more than the largest remaining id (or was 1 and the store   *)
(* is left empty); after a product whose id is not the highest is deleted, *)
(* the id assigned is larger than the deleted one.                         *)
(***************************************************************************)
C18_IdFromPresentIds ==
  LET next == IF products = <<>> THEN 1 ELSE 1 + LargestId(products)
  IN  /\ NextCreateIds = {next}
      /\ JustDeleted =>
           IF \A id \in IdsOf(products) : id < DeletedId
             THEN /\ next <= DeletedId
                  /\ next = DeletedId <=>
                       \/ products = <<>> /\ DeletedId = 1
                       \/ products /= <<>> /\ DeletedId = 1 + LargestId(products)
             ELSE next > DeletedId

\* The only product has just been deleted and its id was not 1: the next
\* create is given the id 1, not the deleted one.
C18_Witness ==
  /\ JustDeleted
  /\ products = <<>>
  /\ DeletedId > 1
  /\ 1 \in NextCreateIds

====
